---- MODULE Spec2Model ----
(***************************************************************************)
(* Content generator: the asynchronous task orchestration of               *)
(* server/controllers/generate.py, server/controllers/routes.py,           *)
(* server/tasks/content.py and server/db/mongodb.py.                       *)
(*                                                                         *)
(* Text is modelled as a sequence of one-token strings, so that strip and  *)
(* split act on it as they do in Python.  A task of the execution backend  *)
(* is a record holding its Celery state, its meta/exception (info), its    *)
(* return value (result), the arguments it was sent with and the position  *)
(* (pc) of the worker inside its body.                                     *)
(***************************************************************************)
EXTENDS Integers, Sequences, FiniteSets, TLC

\* ------------------------------------------------------------------ bounds
\* Task ids the backend issues in one run.
MaxTasks == 3
\* Documents the store inserts in one run.
MaxRecords == 2
\* Task ids the backend issues in one run whose responses are traced.
ApiMaxTasks == 2

TaskIds == 1..MaxTasks
RecordIds == 1..MaxRecords

\* Python's None, and a key that a dict / response does not carry.
None == "None"
Absent == "Absent"
\* None where a document id or a task id is expected.
NoId == 0

VARIABLES
    tasks,      \* task id -> task of the execution backend (broker + result backend)
    issued,     \* number of task ids issued so far
    store,      \* document id -> document of db.contents, or None
    inserted,   \* number of documents inserted so far (ids are never reused)
    resp,       \* the request to POST /generate or /regenerate-post the last step served,
                \* with its response; NoResponse after any other step
    tracing     \* whether the run records resp at all (TRUE in ApiSpec only)

vars == <<tasks, issued, store, inserted, resp, tracing>>

\* ------------------------------------------------------------------ text
Whitespace == {" ", "\n"}

RECURSIVE lstrip(_)
lstrip(s) == IF s # <<>> /\ Head(s) \in Whitespace THEN lstrip(Tail(s)) ELSE s

RECURSIVE rstrip(_)
rstrip(s) ==
    IF s # <<>> /\ s[Len(s)] \in Whitespace THEN rstrip(SubSeq(s, 1, Len(s) - 1)) ELSE s

\* str.strip()
strip(s) == rstrip(lstrip(s))

\* str.split('\n'): the sequence of lines of s
RECURSIVE split_lines(_, _)
split_lines(s, cur) ==
    IF s = <<>> THEN <<cur>>
    ELSE IF Head(s) = "\n" THEN <<cur>> \o split_lines(Tail(s), <<>>)
    ELSE split_lines(Tail(s), Append(cur, Head(s)))

\* "\n\n".join(parts)
RECURSIVE join_blank(_)
join_blank(parts) ==
    IF parts = <<>> THEN <<>>
    ELSE IF Len(parts) = 1 THEN parts[1]
    ELSE parts[1] \o <<"\n", "\n">> \o join_blank(Tail(parts))

\* A line that urlparse accepts as http(s)://netloc is the one token "url".
is_url(line) == strip(line) = <<"url">>

\* What process_keywords appends for one non-empty line; scraped is the text
\* scrape_webpage returned for it (<<>> when scraping failed).
processed_line(line, scraped) ==
    IF is_url(line)
    THEN IF scraped # <<>>
         THEN <<"[From URL: ">> \o line \o <<"]", "\n">> \o scraped
         ELSE <<"[URL - scraping failed]: ">> \o line
    ELSE line

RECURSIVE processed_content(_, _)
processed_content(lines, scraped) ==
    IF lines = <<>> THEN <<>>
    ELSE LET line == strip(Head(lines)) IN
         IF line = <<>> THEN processed_content(Tail(lines), scraped)
         ELSE <<processed_line(line, scraped)>> \o processed_content(Tail(lines), scraped)

process_keywords(reference_keywords, scraped) ==
    IF strip(reference_keywords) = <<>> THEN <<>>
    ELSE join_blank(processed_content(split_lines(strip(reference_keywords), <<>>), scraped))

\* ------------------------------------------------------------------ inputs
ProviderInputs == {"gemini", "gpt", "bogus"}
\* Request bodies of POST /generate (keywords blank or not, provider in the
\* allow-list or not), each with the text scrape_webpage returns for the URL in
\* it (<<>> when there is none or scraping failed).
GenerateInputs ==
    { [reference_keywords |-> <<" ", "kw", "\n">>, reference_posts |-> None,
       provider |-> "gemini", scraped |-> <<>>],
      [reference_keywords |-> <<"url">>, reference_posts |-> <<"ref">>,
       provider |-> "gpt", scraped |-> <<"page">>],
      [reference_keywords |-> <<"kw", "\n", "url">>, reference_posts |-> None,
       provider |-> "bogus", scraped |-> <<>>],
      [reference_keywords |-> <<"\n", " ">>, reference_posts |-> None,
       provider |-> "gpt", scraped |-> <<>>],
      [reference_keywords |-> <<>>, reference_posts |-> <<"ref">>,
       provider |-> "bogus", scraped |-> <<>>] }

\* What a producer returns for a prompt.
Texts == {"", "T1"}

\* ------------------------------------------------------------------ store
\* find_one found no document
NoRecord ==
    [type |-> None, provider |-> None, reference_keywords |-> <<>>,
     reference_posts |-> <<>>, idea |-> None, posts |-> <<>>, updated_at |-> Absent]

\* reference_posts or []
or_empty(reference_posts) == IF reference_posts = None THEN <<>> ELSE reference_posts

\* MongoDB.save_content: insert_one assigns the next id; returns the id
save_content(data) == [store EXCEPT ![inserted + 1] = data]

\* The methods class MongoDB defines.
MongoDBMethods ==
    { "connect", "_create_indexes", "save_content", "update_content", "get_content",
      "get_all_contents", "get_contents_by_type", "delete_content", "close" }

\* db.append_post(...) on a MongoDB instance
append_post_raises == "append_post" \notin MongoDBMethods

\* MongoDB.get_content
get_content(document_id) ==
    IF document_id \in RecordIds THEN store[document_id] ELSE NoRecord

\* ObjectId(document_id) raises InvalidId for a string that is no object id
InvalidId == -1
ObjectId_raises(document_id) == document_id \notin RecordIds

\* The ids a client may send: those of the collection and a malformed one
ContentIdInputs == RecordIds \cup {InvalidId}

\* The bodies of PUT /content/{id}: the fields to $set
UpdateInputs == { [idea |-> ""], [posts |-> <<"E1">>] }

\* datetime.now().isoformat(): the time of the call, kept as the mark that a
\* time was written
Now == "now"

\* What a method of MongoDB that looks a document up by id does: it raises
\* (no connection, or ObjectId(document_id) raises), or it returns whether
\* the document was found.  dbUp: the store can be reached
lookup_returns(document_id, dbUp) ==
    IF ~dbUp \/ ObjectId_raises(document_id) THEN "raised"
    ELSE IF store[document_id] # NoRecord THEN "True"
    ELSE "False"

\* MongoDB.update_content: update_data['updated_at'] = now, then
\* update_one({"_id": ...}, {"$set": update_data}); the collection afterwards
update_content(document_id, update_data) ==
    LET set == [f \in DOMAIN update_data \cup {"updated_at"} |->
                   IF f = "updated_at" THEN Now ELSE update_data[f]]
    IN  [store EXCEPT ![document_id] =
            [f \in DOMAIN store[document_id] |->
                IF f \in DOMAIN set THEN set[f]
                ELSE store[document_id][f]]]

\* MongoDB.update_content: modified_count > 0, or the exception re-raised
update_content_returns(document_id, dbUp) == lookup_returns(document_id, dbUp)

\* MongoDB.delete_content: delete_one({"_id": ...}); the collection afterwards
delete_content(document_id) == [store EXCEPT ![document_id] = NoRecord]

\* MongoDB.delete_content: deleted_count > 0, or the exception re-raised
delete_content_returns(document_id, dbUp) == lookup_returns(document_id, dbUp)

\* The status code of a content route from what its store call did: 500 from
\* the handler's `except Exception`, 404 when the document was not found
content_route_code(returned) ==
    CASE returned = "raised" -> 500
      [] returned = "False" -> 404
      [] OTHER -> 200

\* The status code GET /content/{content_id} answers
GET_content_code(content_id, dbUp) == content_route_code(lookup_returns(content_id, dbUp))

\* The status code PUT /content/{content_id} answers
PUT_content_code(content_id, dbUp) ==
    content_route_code(update_content_returns(content_id, dbUp))

\* The status code DELETE /content/{content_id} answers
DELETE_content_code(content_id, dbUp) ==
    content_route_code(delete_content_returns(content_id, dbUp))

\* The timestamp field of document d: datetime.now().isoformat() taken when
\* the document is built, in the step that inserts it, so that documents
\* inserted later carry later timestamps
timestamp(d) == d

\* self.db.contents.find(): the documents of the collection, by id
find_all == {d \in RecordIds : store[d] # NoRecord}

\* cursor.sort("timestamp", -1): most recent first
RECURSIVE cursor_sort(_)
cursor_sort(cursor) ==
    IF cursor = {} THEN <<>>
    ELSE LET first == CHOOSE d \in cursor :
                          \A e \in cursor : timestamp(e) <= timestamp(d)
         IN  <<first>> \o cursor_sort(cursor \ {first})

\* cursor.skip(n): the documents after the first n
cursor_skip(docs, n) == SubSeq(docs, n + 1, Len(docs))

\* Variant of cursor_limit that takes the bound as the index of the last
\* document, counted from 0
cursor_limit_inclusive(docs, n) ==
    SubSeq(docs, 1, IF n + 1 < Len(docs) THEN n + 1 ELSE Len(docs))

\* cursor.limit(n), n >= 1: the first n documents
cursor_limit(docs, n) == SubSeq(docs, 1, IF n < Len(docs) THEN n ELSE Len(docs))

\* MongoDB.get_all_contents(skip, limit): the documents returned, by id
get_all_contents(skip, limit) ==
    cursor_limit(cursor_skip(cursor_sort(find_all), skip), limit)

\* The query parameters of GET /contents: skip >= 0, 1 <= limit
MaxSkip == 3
MaxLimit == 2
SkipInputs == 0..MaxSkip
LimitInputs == 1..MaxLimit

\* ------------------------------------------------------------------ tasks
IdeaTasks == {"tasks.generate_idea_gemini", "tasks.generate_idea_gpt"}
PostTasks == {"tasks.generate_post_gemini", "tasks.generate_post_gpt"}
RegenerateTasks == {"tasks.regenerate_post_gemini", "tasks.regenerate_post_gpt"}

\* The provider a registered task calls.
task_provider(name) ==
    IF name \in {"tasks.generate_idea_gemini", "tasks.generate_post_gemini",
                 "tasks.regenerate_post_gemini"}
    THEN "gemini" ELSE "gpt"

\* Variant of chained_post_task in which both idea tasks chain the Gemini post task
chained_post_task_gemini(name) == "tasks.generate_post_gemini"

\* The post task an idea task chains to with .delay
chained_post_task(name) ==
    IF name = "tasks.generate_idea_gemini" THEN "tasks.generate_post_gemini"
    ELSE "tasks.generate_post_gpt"

\* A dict of the result backend (a return value or a progress meta) by its keys
NoResult == [status |-> Absent, idea |-> Absent, post |-> Absent, db_file |-> NoId,
             error |-> Absent, current |-> Absent]

NoTask ==
    [name |-> None, state |-> "PENDING", info |-> NoResult, result |-> NoResult,
     pc |-> "unsent", reference_keywords |-> <<>>, reference_posts |-> None,
     idea |-> None, db_file |-> NoId, text |-> None, parent |-> NoId]

\* Variant of Message under task_always_eager: the body starts inside send_task
Message_eager(name, kw, refs, idea, db_file, parent) ==
    [NoTask EXCEPT !.name = name, !.state = "PROGRESS", !.pc = "render",
                   !.reference_keywords = kw, !.reference_posts = refs,
                   !.idea = idea, !.db_file = db_file, !.parent = parent]

\* celery_app.send_task / task.delay: the message put on the broker
Message(name, kw, refs, idea, db_file, parent) ==
    [NoTask EXCEPT !.name = name, !.pc = "queued", !.reference_keywords = kw,
                   !.reference_posts = refs, !.idea = idea, !.db_file = db_file,
                   !.parent = parent]

\* The exception e as the backend keeps it, and str() of what it keeps
exception(e) == [NoResult EXCEPT !.error = e]
str(info) == info.error

\* Variant of error_result that tags the payload 'failed':
\* return {'status': 'failed', 'error': str(e)}
error_result_failed(e) == [NoResult EXCEPT !.status = "failed", !.error = e]

\* return {'status': 'error', 'error': str(e)}
error_result(e) == [NoResult EXCEPT !.status = "error", !.error = e]

\* The task is over: the backend keeps its state and result (or exception), the
\* message and the locals of the body are gone.
Finished(t, state, retval, exc) ==
    [tasks EXCEPT ![t] = [NoTask EXCEPT !.name = tasks[t].name, !.parent = tasks[t].parent,
                                        !.state = state, !.result = retval, !.info = exc,
                                        !.pc = "done"]]

\* Variant of Returned whose except clause re-raises: the exception leaves the
\* task body and the backend records FAILURE with it
Returned_reraised(t, retval) ==
    IF retval.status = "error"
    THEN Finished(t, "FAILURE", NoResult, exception(retval.error))
    ELSE Finished(t, "SUCCESS", retval, NoResult)

\* The task function returned retval: the backend stores SUCCESS with it.
Returned(t, retval) == Finished(t, "SUCCESS", retval, NoResult)

\* ------------------------------------------------------------------ Init
NoResponse ==
    [op |-> None, posted |-> <<>>, reference_keywords |-> <<>>, provider |-> None,
     content_id |-> NoId, code |-> 0, detail |-> None, task_id |-> NoId,
     status |-> None]

Init ==
    /\ tasks = [t \in TaskIds |-> NoTask]
    /\ issued = 0
    /\ store = [r \in RecordIds |-> NoRecord]
    /\ inserted = 0
    /\ resp = NoResponse
    /\ tracing = FALSE

\* The same start, in a run that records the API boundary's responses.
ApiInit ==
    /\ tasks = [t \in TaskIds |-> NoTask]
    /\ issued = 0
    /\ store = [r \in RecordIds |-> NoRecord]
    /\ inserted = 0
    /\ resp = NoResponse
    /\ tracing = TRUE

\* The backend states get_task_status has no branch of its own for
OtherStates == {"STARTED", "RETRY", "REVOKED"}

\* What the broker and the backend may hold for the first task id before any
\* request of this run: a post task called by its registered name with
\* db_file left at its default None, or a task another Celery component left
\* in a state of OtherStates (a revoked task, a task started or retried under
\* another configuration)
DirectTasks ==
    { Message(name, <<"kw">>, <<>>, "T1", NoId, NoId) :
          name \in PostTasks \cup RegenerateTasks }
    \cup { [NoTask EXCEPT !.name = "tasks.generate_idea_gemini", !.state = s,
                          !.pc = "done"] : s \in OtherStates }

\* The start of a run in which the first task did not come from the API.
TaskInit ==
    /\ \E first \in DirectTasks :
          tasks = [t \in TaskIds |-> IF t = 1 THEN first ELSE NoTask]
    /\ issued = 1
    /\ store = [r \in RecordIds |-> NoRecord]
    /\ inserted = 0
    /\ resp = NoResponse
    /\ tracing = FALSE

\* The handler answers response.
Reply(response) ==
    /\ resp' = IF tracing THEN response ELSE NoResponse
    /\ UNCHANGED tracing

\* A step that serves no request of the two POST routes.
NoReply ==
    /\ resp' = NoResponse
    /\ UNCHANGED tracing

\* ------------------------------------------------------------------ API
\* Variant of provider_tasks_get with a default provider:
\* provider_tasks.get(request.provider, "tasks.generate_idea_gemini")
provider_tasks_get_default(provider) ==
    CASE provider = "gpt" -> "tasks.generate_idea_gpt"
      [] OTHER -> "tasks.generate_idea_gemini"

\* provider_tasks.get(request.provider) of initiate_generation
provider_tasks_get(provider) ==
    CASE provider = "gemini" -> "tasks.generate_idea_gemini"
      [] provider = "gpt" -> "tasks.generate_idea_gpt"
      [] OTHER -> None

\* raise HTTPException(status_code, detail): nothing but the response changes,
\* so the refusal is a step only where responses are traced
HTTPException(request, status_code, detail) ==
    /\ tracing
    /\ Reply([request EXCEPT !.code = status_code, !.detail = detail])
    /\ UNCHANGED <<tasks, issued, store, inserted>>

\* Variant of keywords_empty without the strip() test
keywords_never_empty(request) == FALSE

\* not request.reference_keywords.strip()
keywords_empty(request) == strip(request.reference_keywords) = <<>>

\* Variant of initiate_generation that keeps a document of the task it enqueued
initiate_generation_recording(request, brokerUp) ==
    LET task_name == provider_tasks_get(request.provider)
        echo == [NoResponse EXCEPT !.op = "generate", !.posted = request.posted,
                                   !.reference_keywords = request.reference_keywords,
                                   !.provider = request.provider]
    IN  IF keywords_empty(request)
        THEN HTTPException(echo, 400, "reference_keywords cannot be empty")
        ELSE IF task_name = None
        THEN HTTPException(echo, 400, "Invalid provider specified")
        ELSE IF ~brokerUp
        THEN HTTPException(echo, 500, "Failed to initiate generation")
        ELSE /\ tasks' = [tasks EXCEPT ![issued + 1] =
                            Message(task_name, request.reference_keywords,
                                    request.reference_posts, None, NoId, NoId)]
             /\ issued' = issued + 1
             /\ Reply([echo EXCEPT !.code = 200, !.task_id = issued + 1,
                                   !.status = "pending"])
             /\ store' = save_content([NoRecord EXCEPT !.type = "task",
                                                       !.idea = "pending"])
             /\ inserted' = inserted + 1

\* initiate_generation(request); brokerUp: send_task reaches the broker
initiate_generation(request, brokerUp) ==
    LET task_name == provider_tasks_get(request.provider)
        echo == [NoResponse EXCEPT !.op = "generate", !.posted = request.posted,
                                   !.reference_keywords = request.reference_keywords,
                                   !.provider = request.provider]
    IN  IF keywords_empty(request)
        THEN HTTPException(echo, 400, "reference_keywords cannot be empty")
        ELSE IF task_name = None
        THEN HTTPException(echo, 400, "Invalid provider specified")
        ELSE IF ~brokerUp
        THEN HTTPException(echo, 500, "Failed to initiate generation")
        ELSE /\ tasks' = [tasks EXCEPT ![issued + 1] =
                            Message(task_name, request.reference_keywords,
                                    request.reference_posts, None, NoId, NoId)]
             /\ issued' = issued + 1
             /\ Reply([echo EXCEPT !.code = 200, !.task_id = issued + 1,
                                   !.status = "pending"])
             /\ UNCHANGED <<store, inserted>>

\* Variant of regenerate_tasks_get with a default provider
regenerate_tasks_get_default(provider) ==
    CASE provider = "gpt" -> "tasks.regenerate_post_gpt"
      [] OTHER -> "tasks.regenerate_post_gemini"

\* Variant of regenerate_tasks_get that names the chained post tasks
regenerate_tasks_get_chained(provider) ==
    CASE provider = "gemini" -> "tasks.generate_post_gemini"
      [] provider = "gpt" -> "tasks.generate_post_gpt"
      [] OTHER -> None

\* Variant of idea_missing without the test
idea_never_missing(content) == FALSE

\* idea = content.get('idea'); not idea
idea_missing(content) == content.idea \in {None, ""}

\* provider_tasks.get(request.provider) of initiate_post_regeneration
regenerate_tasks_get(provider) ==
    CASE provider = "gemini" -> "tasks.regenerate_post_gemini"
      [] provider = "gpt" -> "tasks.regenerate_post_gpt"
      [] OTHER -> None

\* Variant of lower that passes the state's name through as the backend spells it
lower_verbatim(state) == state

\* result.state.lower() for a backend state get_task_status has no branch for
lower(state) ==
    CASE state = "PENDING" -> "pending"
      [] state = "PROGRESS" -> "progress"
      [] state = "SUCCESS" -> "success"
      [] state = "FAILURE" -> "failure"
      [] state = "STARTED" -> "started"
      [] state = "RETRY" -> "retry"
      [] state = "REVOKED" -> "revoked"
      [] OTHER -> state

\* POST /generate: the keywords are processed, then the request is handed on;
\* posted keeps the keywords as the client sent them
generate(body, brokerUp) ==
    initiate_generation(
        [reference_keywords |-> process_keywords(body.reference_keywords, body.scraped),
         reference_posts |-> body.reference_posts, provider |-> body.provider,
         posted |-> body.reference_keywords],
        brokerUp)

\* initiate_post_regeneration(request); dbUp: the store answers get_content
initiate_post_regeneration(content_id, provider, dbUp, brokerUp) ==
    LET request == [NoResponse EXCEPT !.op = "regenerate-post",
                                      !.content_id = content_id,
                                      !.provider = provider]
        content == get_content(content_id)
        task_name == regenerate_tasks_get(provider)
    IN  IF ~dbUp \/ ObjectId_raises(content_id)
        THEN HTTPException(request, 500, "Failed to initiate post regeneration")
        ELSE IF content = NoRecord
        THEN HTTPException(request, 404, "Content not found")
        ELSE IF idea_missing(content)
        THEN HTTPException(request, 400, "No idea found in content")
        ELSE IF task_name = None
        THEN HTTPException(request, 400, "Invalid provider specified")
        ELSE IF ~brokerUp
        THEN HTTPException(request, 500, "Failed to initiate post regeneration")
        ELSE /\ tasks' = [tasks EXCEPT ![issued + 1] =
                            Message(task_name, content.reference_keywords,
                                    content.reference_posts, content.idea,
                                    content_id, NoId)]
             /\ issued' = issued + 1
             /\ Reply([request EXCEPT !.code = 200, !.task_id = issued + 1,
                                      !.status = "pending"])
             /\ UNCHANGED <<store, inserted>>

\* POST /regenerate-post
regenerate_post(content_id, provider, dbUp, brokerUp) ==
    initiate_post_regeneration(content_id, provider, dbUp, brokerUp)

\* Variant of get_task_status that passes every backend state through lower()
get_task_status_passthrough(task_id) ==
    [task_id |-> task_id, status |-> lower(tasks[task_id].state),
     result |-> tasks[task_id].result, error |-> Absent]

\* Variant of get_task_status that does not look into the payload of a SUCCESS
get_task_status_unchecked(task_id) ==
    LET result == tasks[task_id]
        answer == [task_id |-> task_id, status |-> None, result |-> NoResult,
                   error |-> Absent]
    IN  IF result.state = "PENDING"
        THEN [answer EXCEPT !.status = "pending"]
        ELSE IF result.state = "PROGRESS"
        THEN [answer EXCEPT !.status = "in_progress", !.result = result.info]
        ELSE IF result.state = "SUCCESS"
        THEN [answer EXCEPT !.status = "SUCCESS", !.result = result.result]
        ELSE IF result.state = "FAILURE"
        THEN [answer EXCEPT !.status = "failed", !.error = str(result.info)]
        ELSE [answer EXCEPT !.status = lower(result.state)]

\* PUT /content/{content_id}: the document is updated when it is found; a
\* store that is down, a malformed id (500) or an unknown id (404) change nothing
PUT_content(content_id, data, dbUp) ==
    /\ PUT_content_code(content_id, dbUp) = 200
    /\ store' = update_content(content_id, data)
    /\ NoReply
    /\ UNCHANGED <<tasks, issued, inserted>>

\* DELETE /content/{content_id}: the document is removed when it is found; a
\* store that is down, a malformed id (500) or an unknown id (404) change nothing
DELETE_content(content_id, dbUp) ==
    /\ DELETE_content_code(content_id, dbUp) = 200
    /\ store' = delete_content(content_id)
    /\ NoReply
    /\ UNCHANGED <<tasks, issued, inserted>>

\* get_task_status(task_id): the response body, from the backend's AsyncResult
get_task_status(task_id) ==
    LET result == tasks[task_id]
        answer == [task_id |-> task_id, status |-> None, result |-> NoResult,
                   error |-> Absent]
    IN  IF result.state = "PENDING"
        THEN [answer EXCEPT !.status = "pending"]
        ELSE IF result.state = "PROGRESS"
        THEN [answer EXCEPT !.status = "in_progress", !.result = result.info]
        ELSE IF result.state = "SUCCESS"
        THEN IF result.result.status = "error"
             THEN [answer EXCEPT !.status = "failed", !.error = result.result.error]
             ELSE [answer EXCEPT !.status = "SUCCESS", !.result = result.result]
        ELSE IF result.state = "FAILURE"
        THEN [answer EXCEPT !.status = "failed", !.error = str(result.info)]
        ELSE [answer EXCEPT !.status = lower(result.state)]

\* Variant of task_status that calls result.forget() after reading
task_status_forgets(task_id) ==
    /\ tasks' = [tasks EXCEPT ![task_id].state = "PENDING",
                              ![task_id].result = NoResult,
                              ![task_id].info = NoResult]
    /\ NoReply
    /\ UNCHANGED <<issued, store, inserted>>

\* GET /task/{task_id}: the handler reads the backend and writes nothing
task_status(task_id) ==
    /\ NoReply
    /\ UNCHANGED <<tasks, issued, store, inserted>>

\* ------------------------------------------------------------------ workers
Running == {"render", "call", "store", "chain", "return"}

\* Variant of calling_note: the second update_state repeats the rendering note
calling_note_stale(name) ==
    IF name \in IdeaTasks THEN "Rendering idea prompt" ELSE "Rendering post prompt"

\* The 'Calling ... API' progress note of a task
calling_note(name) ==
    IF task_provider(name) = "gemini" THEN "Calling Gemini API" ELSE "Calling OpenAI API"

\* Variant of meta: update_state without meta
meta_none(note) == NoResult

\* meta={'current': note}
meta(note) == [NoResult EXCEPT !.current = note]

\* Variant of Start where the broker redelivers the message of a finished task
Start_redelivered(t) ==
    /\ tasks[t].pc \in {"queued", "done"}
    /\ tasks' = [tasks EXCEPT
                   ![t].state = "PROGRESS",
                   ![t].info = meta("Rendering idea prompt"),
                   ![t].pc = "render"]
    /\ NoReply
    /\ UNCHANGED <<issued, store, inserted>>

\* Variant of Start where no worker consumes the messages of post tasks
Start_ideas_only(t) ==
    /\ tasks[t].pc = "queued"
    /\ tasks[t].name \in IdeaTasks
    /\ tasks' = [tasks EXCEPT
                   ![t].state = "PROGRESS",
                   ![t].info = meta("Rendering idea prompt"),
                   ![t].pc = "render"]
    /\ NoReply
    /\ UNCHANGED <<issued, store, inserted>>

\* A worker takes the message and enters the body:
\* self.update_state(state='PROGRESS', meta={'current': 'Rendering ... prompt'})
Start(t) ==
    /\ tasks[t].pc = "queued"
    /\ tasks' = [tasks EXCEPT
                   ![t].state = "PROGRESS",
                   ![t].info = meta(IF tasks[t].name \in IdeaTasks
                                    THEN "Rendering idea prompt"
                                    ELSE "Rendering post prompt"),
                   ![t].pc = "render"]
    /\ NoReply
    /\ UNCHANGED <<issued, store, inserted>>

\* jinja_env.get_template(...).render(...), then update_state 'Calling ... API';
\* rendered: the template was found and rendered
Render(t, rendered) ==
    /\ tasks[t].pc = "render"
    /\ tasks' = IF rendered
                THEN [tasks EXCEPT ![t].info = meta(calling_note(tasks[t].name)),
                                   ![t].pc = "call"]
                ELSE Returned(t, error_result("TemplateError"))
    /\ NoReply
    /\ UNCHANGED <<issued, store, inserted>>

\* Variant of CallProvider whose post task, when the call raised, appends an
\* empty placeholder post to its target record before it returns the error
CallProvider_placeholder(t, out) ==
    /\ tasks[t].pc = "call"
    /\ tasks' = IF out # None
                THEN [tasks EXCEPT ![t].text = out, ![t].pc = "store"]
                ELSE Returned(t, error_result("ProviderError"))
    /\ store' = IF out = None /\ get_content(tasks[t].db_file) # NoRecord
                THEN [store EXCEPT ![tasks[t].db_file].posts = Append(@, "")]
                ELSE store
    /\ NoReply
    /\ UNCHANGED <<issued, inserted>>

\* model.generate_content(prompt) / openai.chat.completions.create(...);
\* out: the text the producer returned, or None when the call raised
CallProvider(t, out) ==
    /\ tasks[t].pc = "call"
    /\ tasks' = IF out # None
                THEN [tasks EXCEPT ![t].text = out, ![t].pc = "store"]
                ELSE Returned(t, error_result("ProviderError"))
    /\ NoReply
    /\ UNCHANGED <<issued, store, inserted>>

\* Variant of idea_data that records the configured default provider
idea_data_default_provider(task) ==
    [type |-> "idea", provider |-> "gemini",
     reference_keywords |-> task.reference_keywords,
     reference_posts |-> or_empty(task.reference_posts),
     idea |-> task.text, posts |-> <<>>, updated_at |-> Absent]

\* The document an idea task builds (idea_data)
idea_data(task) ==
    [type |-> "idea", provider |-> task_provider(task.name),
     reference_keywords |-> task.reference_keywords,
     reference_posts |-> or_empty(task.reference_posts),
     idea |-> task.text, posts |-> <<>>, updated_at |-> Absent]

\* Variant of post_data that leaves the generated text out of posts
post_data_without_post(task) ==
    [type |-> "post", provider |-> task_provider(task.name),
     reference_keywords |-> task.reference_keywords,
     reference_posts |-> or_empty(task.reference_posts),
     idea |-> task.idea, posts |-> <<>>, updated_at |-> Absent]

\* The document a post task builds (post_data)
post_data(task) ==
    [type |-> "post", provider |-> task_provider(task.name),
     reference_keywords |-> task.reference_keywords,
     reference_posts |-> or_empty(task.reference_posts),
     idea |-> task.idea, posts |-> <<task.text>>, updated_at |-> Absent]

\* Variant of SaveIdea whose task returns right after the save, chaining nothing
SaveIdea_unchained(t, dbUp) ==
    /\ tasks[t].pc = "store"
    /\ tasks[t].name \in IdeaTasks
    /\ IF dbUp
       THEN /\ store' = save_content(idea_data(tasks[t]))
            /\ inserted' = inserted + 1
            /\ tasks' = [tasks EXCEPT ![t].db_file = inserted + 1, ![t].pc = "return"]
       ELSE /\ tasks' = Returned(t, error_result("StoreError"))
            /\ UNCHANGED <<store, inserted>>
    /\ NoReply
    /\ UNCHANGED issued

\* Idea task: db_file = save_to_db(idea_data); dbUp: the insert succeeds
SaveIdea(t, dbUp) ==
    /\ tasks[t].pc = "store"
    /\ tasks[t].name \in IdeaTasks
    /\ IF dbUp
       THEN /\ store' = save_content(idea_data(tasks[t]))
            /\ inserted' = inserted + 1
            /\ tasks' = [tasks EXCEPT ![t].db_file = inserted + 1, ![t].pc = "chain"]
       ELSE /\ tasks' = Returned(t, error_result("StoreError"))
            /\ UNCHANGED <<store, inserted>>
    /\ NoReply
    /\ UNCHANGED issued

\* Idea task: generate_post_<provider>.delay(...); brokerUp: the message is sent
ChainPost(t, brokerUp) ==
    /\ tasks[t].pc = "chain"
    /\ IF brokerUp
       THEN /\ tasks' = [tasks EXCEPT
                           ![t].pc = "return",
                           ![issued + 1] =
                               Message(chained_post_task(tasks[t].name),
                                       tasks[t].reference_keywords,
                                       or_empty(tasks[t].reference_posts),
                                       tasks[t].text, tasks[t].db_file, t)]
            /\ issued' = issued + 1
       ELSE /\ tasks' = Returned(t, error_result("BrokerError"))
            /\ UNCHANGED issued
    /\ NoReply
    /\ UNCHANGED <<store, inserted>>

\* Variant of StorePost without the inner try: the exception of db.append_post
\* reaches the task's except clause, as in the regeneration tasks
StorePost_no_fallback(t, dbUp) ==
    /\ tasks[t].pc = "store"
    /\ tasks[t].name \in PostTasks
    /\ IF tasks[t].db_file # NoId
       THEN /\ tasks' = Returned(t, error_result("AttributeError"))
            /\ UNCHANGED <<store, inserted>>
       ELSE IF dbUp
       THEN /\ store' = save_content(post_data(tasks[t]))
            /\ inserted' = inserted + 1
            /\ tasks' = [tasks EXCEPT ![t].db_file = inserted + 1, ![t].pc = "return"]
       ELSE /\ tasks' = Returned(t, error_result("StoreError"))
            /\ UNCHANGED <<store, inserted>>
    /\ NoReply
    /\ UNCHANGED issued

\* Post task, after the producer returned: with a db_file, db.append_post raises
\* and the handler saves post_data as a new document; without one it saves
\* post_data directly.  dbUp: the insert succeeds
StorePost(t, dbUp) ==
    /\ tasks[t].pc = "store"
    /\ tasks[t].name \in PostTasks
    /\ tasks[t].db_file # NoId => append_post_raises
    /\ IF dbUp
       THEN /\ store' = save_content(post_data(tasks[t]))
            /\ inserted' = inserted + 1
            /\ tasks' = [tasks EXCEPT ![t].db_file = inserted + 1, ![t].pc = "return"]
       ELSE /\ tasks' = Returned(t, error_result("StoreError"))
            /\ UNCHANGED <<store, inserted>>
    /\ NoReply
    /\ UNCHANGED issued

\* Regeneration task, after the producer returned: with a db_file,
\* db.append_post raises into the task's except clause
StoreRegenerated(t) ==
    /\ tasks[t].pc = "store"
    /\ tasks[t].name \in RegenerateTasks
    /\ tasks' = IF tasks[t].db_file # NoId /\ append_post_raises
                THEN Returned(t, error_result("AttributeError"))
                ELSE [tasks EXCEPT ![t].pc = "return"]
    /\ NoReply
    /\ UNCHANGED <<issued, store, inserted>>

\* return {'status': 'success', ...}
Return(t) ==
    /\ tasks[t].pc = "return"
    /\ tasks' = Returned(t,
                  IF tasks[t].name \in IdeaTasks
                  THEN [NoResult EXCEPT !.status = "success", !.idea = tasks[t].text,
                                        !.db_file = tasks[t].db_file]
                  ELSE [NoResult EXCEPT !.status = "success", !.post = tasks[t].text,
                                        !.db_file = tasks[t].db_file])
    /\ NoReply
    /\ UNCHANGED <<issued, store, inserted>>

\* Variant of WorkerLost under task_acks_late with task_reject_on_worker_lost:
\* the broker redelivers the message and the task runs again
WorkerLost_requeued(t) ==
    /\ tasks[t].pc \in Running
    /\ tasks' = [tasks EXCEPT ![t].pc = "queued", ![t].state = "PENDING",
                              ![t].info = NoResult, ![t].text = None]
    /\ NoReply
    /\ UNCHANGED <<issued, store, inserted>>

\* The worker process running the task dies: the pool marks the task FAILURE
WorkerLost(t) ==
    /\ tasks[t].pc \in Running
    /\ tasks' = Finished(t, "FAILURE", NoResult, exception("WorkerLostError"))
    /\ NoReply
    /\ UNCHANGED <<issued, store, inserted>>

\* One step of the worker pool on task t
WorkerStep(t) ==
    \/ Start(t)
    \/ \E rendered \in BOOLEAN : Render(t, rendered)
    \/ \E out \in Texts \cup {None} : CallProvider(t, out)
    \/ \E dbUp \in BOOLEAN : SaveIdea(t, dbUp)
    \/ \E brokerUp \in BOOLEAN : ChainPost(t, brokerUp)
    \/ \E dbUp \in BOOLEAN : StorePost(t, dbUp)
    \/ StoreRegenerated(t)
    \/ Return(t)

\* ------------------------------------------------------------------ Next
\* Task ids and document ids the tasks already sent may still take: an idea
\* task chains one post task and inserts one document, a post task inserts one.
Unchained == {t \in TaskIds : tasks[t].name \in IdeaTasks
                              /\ tasks[t].pc \in {"queued", "render", "call", "store", "chain"}}
Unsaved == {t \in TaskIds : tasks[t].name \in IdeaTasks \cup PostTasks
                            /\ tasks[t].pc \in {"queued", "render", "call", "store"}}
TaskBudget == IF tracing THEN ApiMaxTasks ELSE MaxTasks
TasksLeft == TaskBudget - issued - Cardinality(Unchained)
RecordsLeft == MaxRecords - inserted - Cardinality(Unchained) - Cardinality(Unsaved)

\* The run has task ids and document ids left for one more request.
GenerationBudget == TasksLeft >= 2 /\ RecordsLeft >= 2
RegenerationBudget == TasksLeft >= 1

Next ==
    \/ \E body \in GenerateInputs, brokerUp \in BOOLEAN :
          /\ brokerUp => GenerationBudget
          /\ generate(body, brokerUp)
    \/ \E id \in ContentIdInputs, p \in ProviderInputs,
          dbUp \in BOOLEAN, brokerUp \in BOOLEAN :
          /\ brokerUp => RegenerationBudget
          /\ regenerate_post(id, p, dbUp, brokerUp)
    \/ \E id \in ContentIdInputs, data \in UpdateInputs, dbUp \in BOOLEAN :
          PUT_content(id, data, dbUp)
    \/ \E id \in ContentIdInputs, dbUp \in BOOLEAN : DELETE_content(id, dbUp)
    \/ \E t \in TaskIds : task_status(t)
    \/ \E t \in TaskIds : WorkerStep(t)
    \/ \E t \in TaskIds : WorkerLost(t)

Spec == Init /\ [][Next]_vars

\* The worker pool is fair to every task: a task that has a next step takes it.
FairSpec == Spec /\ \A t \in TaskIds : WF_vars(WorkerStep(t))

\* The same program, with the responses of the POST routes recorded.
ApiSpec == ApiInit /\ [][Next]_vars

\* The same program, started with a task that did not come from the API.
TaskSpec == TaskInit /\ [][Next]_vars

\* ------------------------------------------------------------------ claims
\* The provider allow-list of initiate_generation
AllowList == {"gemini", "gpt"}

\* The last step served POST /generate
ServedGenerate == resp'.op = "generate"

\* The step enqueued nothing and wrote nothing
NothingEnqueued == UNCHANGED <<tasks, issued, store, inserted>>

\* The step enqueued exactly one idea task for the request resp' echoes, left it
\* untouched by any worker, and answered its id with status "pending"
OneIdeaTaskEnqueued ==
    /\ issued' = issued + 1
    /\ resp'.code = 200 /\ resp'.task_id = issued' /\ resp'.status = "pending"
    /\ tasks'[issued'].name \in IdeaTasks
    /\ task_provider(tasks'[issued'].name) = resp'.provider
    /\ tasks'[issued'].reference_keywords = resp'.reference_keywords
    /\ tasks'[issued'].pc = "queued" /\ tasks'[issued'].state = "PENDING"
    /\ \A t \in TaskIds \ {issued'} : tasks'[t] = tasks[t]
    /\ UNCHANGED <<store, inserted>>

\* The backend holds a terminal state for task t
Terminal(t) == tasks[t].state \in {"SUCCESS", "FAILURE"}
\* Task t returned a payload that is not error-tagged (the state `succeeded`)
Succeeded(t) == tasks[t].state = "SUCCESS" /\ tasks[t].result.status # "error"
\* Task t returned an error-tagged payload
ErrorTagged(t) == tasks[t].state = "SUCCESS" /\ tasks[t].result.status = "error"

\* C1 (as stated): every POST /generate with non-empty keywords and a provider
\* of the allow-list enqueues exactly one idea task and answers its task_id
\* with status "pending", no worker step of that task having occurred.
C1_AlwaysEnqueues ==
    [][(ServedGenerate /\ strip(resp'.reference_keywords) # <<>>
                       /\ resp'.provider \in AllowList)
       => OneIdeaTaskEnqueued]_vars

\* C1 (amended): such a request either enqueues exactly one idea task and
\* answers its task_id with status "pending" before any worker step of it, or,
\* when send_task raises, answers HTTP 500 and enqueues nothing.
C1_EnqueuesOrFails ==
    [][(ServedGenerate /\ strip(resp'.reference_keywords) # <<>>
                       /\ resp'.provider \in AllowList)
       => \/ OneIdeaTaskEnqueued
          \/ resp'.code = 500 /\ resp'.task_id = NoId /\ NothingEnqueued]_vars

C1_Witness ==
    /\ resp.op = "generate" /\ resp.code = 200
    /\ tasks[resp.task_id].pc = "queued"

\* C2 (as stated): POST /generate with a provider outside the allow-list fails
\* with InvalidProvider (HTTP 400), issues no task_id and enqueues nothing.
C2_InvalidProviderAlways ==
    [][(ServedGenerate /\ resp'.provider \notin AllowList)
       => /\ resp'.code = 400 /\ resp'.detail = "Invalid provider specified"
          /\ resp'.task_id = NoId
          /\ NothingEnqueued]_vars

\* C2 (amended): POST /generate with non-empty keywords and a provider outside
\* the allow-list fails with InvalidProvider (HTTP 400), issues no task_id and
\* leaves queue and store unchanged; with empty keywords the failure is the
\* empty-keywords one, HTTP 400 as well, and nothing is enqueued either.
C2_InvalidProvider ==
    [][(ServedGenerate /\ resp'.provider \notin AllowList)
       => /\ resp'.code = 400
          /\ resp'.detail = IF strip(resp'.reference_keywords) # <<>>
                            THEN "Invalid provider specified"
                            ELSE "reference_keywords cannot be empty"
          /\ resp'.task_id = NoId
          /\ NothingEnqueued]_vars

C2_Witness ==
    /\ resp.op = "generate" /\ resp.provider \notin AllowList
    /\ resp.detail = "Invalid provider specified"

\* C3: POST /generate whose keywords are empty or whitespace-only fails with
\* the empty-keywords error (HTTP 400) and enqueues no task, for every provider.
C3_EmptyInput ==
    [][(ServedGenerate /\ strip(resp'.posted) = <<>>)
       => /\ resp'.code = 400 /\ resp'.detail = "reference_keywords cannot be empty"
          /\ resp'.task_id = NoId
          /\ NothingEnqueued]_vars

C3_Witness ==
    /\ resp.op = "generate" /\ resp.posted # <<>> /\ strip(resp.posted) = <<>>
    /\ resp.provider \in AllowList /\ resp.code = 400

\* The status get_task_status reports for task t
status(t) == get_task_status(t).status

\* The chained post tasks of idea task t: enqueued by it, queued or beyond
ChainedPosts(t) ==
    {u \in TaskIds : /\ tasks[u].parent = t
                     /\ tasks[u].name = chained_post_task(tasks[t].name)
                     /\ tasks[u].pc \in {"queued", "done"} \cup Running}

\* C4: the reported states succeeded and failed are absorbing: once
\* get_task_status reports one of them for a task it reports no other state
\* for that task afterwards, whatever step is taken.
C4_TerminalAbsorbing ==
    [][\A t \in TaskIds :
          status(t) \in {"SUCCESS", "succeeded", "failed"} => status(t)' = status(t)]_vars

C4_Witness ==
    \E t, u \in TaskIds : /\ status(t) = "SUCCESS" /\ status(u) = "failed"
                          /\ tasks[u].parent = t

C6_FailuresNormalised ==
    \A t \in TaskIds :
        /\ ErrorTagged(t) =>
              /\ status(t) = "failed"
              /\ get_task_status(t).error = tasks[t].result.error
        /\ tasks[t].state = "FAILURE" =>
              /\ status(t) = "failed"
              /\ get_task_status(t).error = str(tasks[t].info)
        /\ (ErrorTagged(t) \/ tasks[t].state = "FAILURE") =>
              /\ get_task_status(t).error \notin {Absent, None, ""}
              /\ get_task_status(t).result = NoResult

C6_Witness ==
    \E t, u \in TaskIds : ErrorTagged(t) /\ tasks[u].state = "FAILURE"

\* C7: get_task_status is idempotent on a terminal task: whatever steps other
\* requests and workers take in between, it returns the same status, result
\* and error for that task.
C7_TerminalIdempotent ==
    [][\A t \in TaskIds : Terminal(t) => get_task_status(t)' = get_task_status(t)]_vars

C7_Witness ==
    \E t, u \in TaskIds : /\ Succeeded(t) /\ tasks[t].name \in IdeaTasks
                          /\ tasks[u].parent = t /\ tasks[u].pc \in Running

\* C8: when an idea task has succeeded, its record has been created and its
\* chained post task has already been handed to the queue (it is queued,
\* running or finished).
C8_PostEnqueuedBeforeSuccess ==
    \A t \in TaskIds :
        (tasks[t].name \in IdeaTasks /\ Succeeded(t)) =>
            /\ tasks[t].result.db_file \in 1..inserted
            /\ ChainedPosts(t) # {}

C8_Witness ==
    \E t \in TaskIds : /\ tasks[t].name \in IdeaTasks /\ Succeeded(t)
                       /\ \E u \in ChainedPosts(t) : tasks[u].pc = "queued"

\* C9: with a worker pool that is fair to every task, every post task enqueued
\* by an idea task that succeeded eventually reaches a terminal state.
C9_ChainedPostTerminates ==
    \A u \in TaskIds :
        (/\ tasks[u].name \in PostTasks /\ tasks[u].parent # NoId
         /\ tasks[u].pc # "unsent"
         /\ Succeeded(tasks[u].parent))
        ~> (status(u) \in {"SUCCESS", "failed"})

C9_Witness ==
    \E u \in TaskIds : /\ tasks[u].name \in PostTasks /\ tasks[u].parent # NoId
                       /\ Succeeded(tasks[u].parent)
                       /\ tasks[u].pc = "done" /\ ErrorTagged(u)

\* C10: when an idea task and its chained post task both succeeded, the record
\* get_content returns for the idea task's id has a posts array of length
\* exactly 1 that holds the post task's text.
C10_IdeaRecordHoldsPost ==
    \A t \in TaskIds : \A u \in ChainedPosts(t) :
        (tasks[t].name \in IdeaTasks /\ Succeeded(t) /\ Succeeded(u)) =>
            /\ Len(get_content(tasks[t].result.db_file).posts) = 1
            /\ get_content(tasks[t].result.db_file).posts[1] = tasks[u].result.post

C10_Witness ==
    \E t \in TaskIds : \E u \in ChainedPosts(t) :
        /\ tasks[t].name \in IdeaTasks /\ Succeeded(t) /\ Succeeded(u)
        /\ tasks[u].result.post # ""
        /\ get_content(tasks[t].result.db_file).posts = <<>>
        /\ tasks[u].result.db_file # tasks[t].result.db_file
        /\ get_content(tasks[u].result.db_file).type = "post"
        /\ get_content(tasks[u].result.db_file).posts = <<tasks[u].result.post>>

\* Task u, a post task given the id of a record that exists, leaves its store
\* step without an exception reaching the task boundary
StoresIntoGivenRecord(u) ==
    /\ tasks[u].pc = "store" /\ tasks[u].db_file # NoId
    /\ get_content(tasks[u].db_file) # NoRecord
    /\ tasks'[u].pc = "return"

\* C11: a post task (chained or regeneration) that succeeds after being given
\* the id of an existing record appends the generated text to that record's
\* posts, creates no other record and keeps that id for its result.
C11_AppendsToGivenRecord ==
    [][\A u \in TaskIds :
          (tasks[u].name \in PostTasks \cup RegenerateTasks /\ StoresIntoGivenRecord(u))
          => /\ get_content(tasks[u].db_file)'.posts
                    = Append(get_content(tasks[u].db_file).posts, tasks[u].text)
             /\ inserted' = inserted
             /\ tasks'[u].db_file = tasks[u].db_file]_vars

C11_Witness ==
    \E t \in TaskIds : \E u \in ChainedPosts(t) :
        /\ Succeeded(t) /\ Succeeded(u)
        /\ tasks[u].result.db_file # tasks[t].result.db_file
        /\ inserted = 2

\* C12: every regeneration task whose producer call returned a text ends its
\* store step with that text appended to the posts of its target record, all
\* earlier elements kept, whatever other regeneration tasks against the same id
\* do concurrently; so N such tasks add N elements.
C12_RegenerationsAppend ==
    [][\A u \in TaskIds :
          (/\ tasks[u].name \in RegenerateTasks
           /\ tasks[u].pc = "store" /\ tasks'[u].pc # "store"
           /\ tasks'[u].state # "FAILURE"
           /\ get_content(tasks[u].db_file) # NoRecord)
          => /\ tasks'[u].pc = "return"
             /\ get_content(tasks[u].db_file)'.posts
                    = Append(get_content(tasks[u].db_file).posts, tasks[u].text)]_vars

C12_Witness ==
    \E u, v \in TaskIds :
        /\ u # v /\ {tasks[u].name, tasks[v].name} \subseteq RegenerateTasks
        /\ tasks[u].pc = "store" /\ tasks[u].text # ""
        /\ tasks[v].pc = "done" /\ ErrorTagged(v)
        /\ tasks[v].result.error = "AttributeError"
        /\ get_content(tasks[u].db_file).posts = <<>>

\* The last step served POST /regenerate-post
ServedRegenerate == resp'.op = "regenerate-post"

\* The record the served request names, as the store held it before the step
Requested == get_content(resp'.content_id)

\* The served request was refused with this answer and nothing was enqueued
RefusedWith(code, detail) ==
    /\ resp'.code = code /\ resp'.detail = detail
    /\ resp'.task_id = NoId /\ resp'.status = None
    /\ NothingEnqueued

\* C13 (as stated): POST /regenerate-post for a record without an idea fails
\* with MissingIdea (HTTP 400) and enqueues nothing, whatever the provider.
C13_MissingIdeaAlways ==
    [][(ServedRegenerate /\ Requested # NoRecord /\ Requested.idea \in {None, ""})
       => RefusedWith(400, "No idea found in content")]_vars

\* C13 (amended): POST /regenerate-post for a record without an idea enqueues
\* nothing, whatever the provider, and fails with MissingIdea (HTTP 400), or
\* with HTTP 500 when the lookup of the record itself raises.
C13_MissingIdea ==
    [][(ServedRegenerate /\ Requested # NoRecord /\ Requested.idea \in {None, ""})
       => \/ RefusedWith(400, "No idea found in content")
          \/ RefusedWith(500, "Failed to initiate post regeneration")]_vars

C13_Witness ==
    /\ resp.op = "regenerate-post" /\ resp.code = 400
    /\ resp.detail = "No idea found in content"
    /\ resp.provider \notin AllowList
    /\ get_content(resp.content_id).type = "idea"

\* C14: POST /regenerate-post for a content id that is not in the store fails
\* with NotFound (HTTP 404), enqueues no task and creates no record, also when
\* the provider is invalid.
C14_NotFound ==
    [][(ServedRegenerate /\ Requested = NoRecord)
       => RefusedWith(404, "Content not found")]_vars

C14_Witness ==
    /\ resp.op = "regenerate-post" /\ resp.content_id = InvalidId
    /\ resp.code = 500 /\ resp.provider \notin AllowList
    /\ inserted > 0

\* C15 (as stated): POST /regenerate-post for an existing record with an idea
\* and a provider outside the allow-list fails with InvalidProvider (HTTP 400),
\* enqueues nothing and leaves the record unchanged.
C15_InvalidProviderAlways ==
    [][(/\ ServedRegenerate /\ Requested # NoRecord
        /\ Requested.idea \notin {None, ""} /\ resp'.provider \notin AllowList)
       => RefusedWith(400, "Invalid provider specified")]_vars

\* C15 (amended): such a request enqueues nothing, leaves the record unchanged
\* and fails with InvalidProvider (HTTP 400), or with HTTP 500 when the lookup
\* of the record itself raises.
C15_InvalidProvider ==
    [][(/\ ServedRegenerate /\ Requested # NoRecord
        /\ Requested.idea \notin {None, ""} /\ resp'.provider \notin AllowList)
       => \/ RefusedWith(400, "Invalid provider specified")
          \/ RefusedWith(500, "Failed to initiate post regeneration")]_vars

C15_Witness ==
    /\ resp.op = "regenerate-post" /\ resp.code = 400
    /\ resp.detail = "Invalid provider specified"
    /\ get_content(resp.content_id).idea = "T1"

\* C16: a successful POST /regenerate-post enqueues exactly one regeneration
\* task whose arguments are the record's idea, its stored keywords and
\* reference posts and the content id as db_file, answers that task's id with
\* status "pending", and leaves every record as it was.
C16_RegenerationEnqueued ==
    [][(ServedRegenerate /\ resp'.code = 200)
       => /\ issued' = issued + 1
          /\ resp'.task_id = issued' /\ resp'.status = "pending"
          /\ tasks'[issued'].name \in RegenerateTasks
          /\ task_provider(tasks'[issued'].name) = resp'.provider
          /\ tasks'[issued'].idea = Requested.idea
          /\ Requested.idea \notin {None, ""}
          /\ tasks'[issued'].reference_keywords = Requested.reference_keywords
          /\ tasks'[issued'].reference_posts = Requested.reference_posts
          /\ tasks'[issued'].db_file = resp'.content_id
          /\ tasks'[issued'].pc = "queued" /\ tasks'[issued'].state = "PENDING"
          /\ \A t \in TaskIds \ {issued'} : tasks'[t] = tasks[t]
          /\ UNCHANGED <<store, inserted>>]_vars

C16_Witness ==
    /\ resp.op = "regenerate-post" /\ resp.code = 200
    /\ tasks[resp.task_id].pc = "queued"
    /\ tasks[resp.task_id].db_file = resp.content_id
    /\ tasks[resp.task_id].reference_keywords # <<>>

\* C17: in every reachable state of the store, after any generation,
\* regeneration, PUT and DELETE, every record with non-empty posts has a
\* non-empty idea.
C17_PostsImplyIdea ==
    \A d \in RecordIds :
        (get_content(d) # NoRecord /\ get_content(d).posts # <<>>)
        => get_content(d).idea \notin {None, ""}

C17_Witness ==
    \E d \in RecordIds : /\ get_content(d).type = "post"
                         /\ get_content(d).posts = <<"T1">>
                         /\ get_content(d).idea = ""

\* C18: posts is append-only under task execution: a step of a task leaves the
\* posts of every record as they were or adds one element at the end, and the
\* store step of a successful post or regeneration task given a record adds
\* exactly one element to that record's posts.
C18_AppendOnly ==
    [][(tasks' # tasks) =>
         /\ \A d \in RecordIds :
               get_content(d) # NoRecord =>
                  \/ get_content(d)'.posts = get_content(d).posts
                  \/ /\ Len(get_content(d)'.posts) = Len(get_content(d).posts) + 1
                     /\ SubSeq(get_content(d)'.posts, 1, Len(get_content(d).posts))
                            = get_content(d).posts
         /\ \A u \in TaskIds :
               (tasks[u].name \in PostTasks \cup RegenerateTasks
                /\ StoresIntoGivenRecord(u))
               => Len(get_content(tasks[u].db_file)'.posts)
                      = Len(get_content(tasks[u].db_file).posts) + 1]_vars

C18_Witness ==
    \E t \in TaskIds : \E u \in ChainedPosts(t) :
        /\ Succeeded(t) /\ tasks[u].pc = "return"
        /\ get_content(tasks[t].result.db_file).type = "idea"
        /\ get_content(tasks[t].result.db_file).posts = <<>>

\* C19: get_task_status for a task id that no enqueue ever issued fails with
\* NotFound instead of reporting a task state.
C19_UnknownTaskNotFound ==
    \A t \in TaskIds :
        tasks[t].pc = "unsent"
        => status(t) \notin {"pending", "in_progress", "SUCCESS", "succeeded", "failed"}

C19_Witness ==
    \E t, u \in TaskIds : /\ tasks[t].pc = "unsent" /\ status(t) = "pending"
                          /\ tasks[u].pc = "queued" /\ status(u) = "pending"
                          /\ get_task_status(t).result = get_task_status(u).result

\* C20 (as stated): the response of get_task_status carries a result only when
\* the status is succeeded or failed; pending and in_progress carry none.
C20_ResultOnlyWhenTerminal ==
    \A t \in TaskIds :
        /\ get_task_status(t).result # NoResult
              => status(t) \in {"SUCCESS", "succeeded", "failed"}
        /\ status(t) \in {"pending", "in_progress"}
              => get_task_status(t).result = NoResult

\* C20 (amended): the response carries a result exactly when the status is
\* in_progress (the progress note set by the task) or SUCCESS (the payload);
\* pending and failed responses carry no result, and exactly the failed ones
\* carry an error.
C20_ResultField ==
    \A t \in TaskIds :
        /\ (get_task_status(t).result # NoResult)
              = (status(t) \in {"in_progress", "SUCCESS"})
        /\ status(t) = "in_progress"
              => /\ get_task_status(t).result = tasks[t].info
                 /\ get_task_status(t).result.current # Absent
        /\ status(t) = "SUCCESS" => get_task_status(t).result = tasks[t].result
        /\ (get_task_status(t).error # Absent) = (status(t) = "failed")

C20_Witness ==
    /\ \E t \in TaskIds : /\ status(t) = "in_progress"
                          /\ get_task_status(t).result.current = "Calling OpenAI API"
    /\ \E t \in TaskIds : status(t) = "failed" /\ get_task_status(t).result = NoResult

\* The exceptions a task body can raise: template rendering, the provider call,
\* the store write, the chained enqueue, and the missing store method
BodyExceptions ==
    {"TemplateError", "ProviderError", "StoreError", "BrokerError", "AttributeError"}

Rank(pc) ==
    CASE pc = "unsent" -> 0 [] pc = "queued" -> 1 [] pc = "render" -> 2
      [] pc = "call" -> 3 [] pc = "store" -> 4 [] pc = "chain" -> 5
      [] pc = "return" -> 6 [] pc = "done" -> 7

\* The tasks task t enqueued
Enqueued(t) == {u \in TaskIds : tasks[u].parent = t /\ tasks[u].pc # "unsent"}

\* C22: no task is retried or re-enqueued: a step sends at most one message,
\* the execution of a task only moves forward (so it is started once and
\* calls the provider at most once), a sent message keeps its task name and
\* origin, an idea task enqueues at most one post task and a post task none,
\* and a task that is over stays over and enqueues nothing further.
C22_NoRetry ==
    [][/\ issued' \in {issued, issued + 1}
       /\ \A t \in TaskIds :
            /\ Rank(tasks'[t].pc) >= Rank(tasks[t].pc)
            /\ tasks[t].pc # "unsent" =>
                  /\ tasks'[t].name = tasks[t].name
                  /\ tasks'[t].parent = tasks[t].parent
            /\ tasks[t].pc = "done" =>
                  /\ tasks'[t] = tasks[t]
                  /\ Enqueued(t)' = Enqueued(t)
            /\ Cardinality(Enqueued(t)') <=
                  (IF tasks'[t].name \in IdeaTasks THEN 1 ELSE 0)]_vars

C22_Witness ==
    \E t, u \in TaskIds :
        /\ tasks[t].name \in IdeaTasks /\ ErrorTagged(t)
        /\ tasks[t].result.error = "ProviderError" /\ Enqueued(t) = {}
        /\ tasks[u].name \in IdeaTasks /\ Succeeded(u) /\ Cardinality(Enqueued(u)) = 1

\* The step changed document d and left it in the collection
Updated(d) == store[d] # NoRecord /\ store'[d] # NoRecord /\ store'[d] # store[d]

\* C23 (existing document): a step that updates a document sets exactly the
\* fields of one update body and updated_at, leaves every other field of the
\* document and every other document as it was, and update_content returns
\* True for that id.
C23_MergeEffect ==
    [][\A d \in RecordIds :
          Updated(d) =>
              /\ update_content_returns(d, TRUE) = "True"
              /\ PUT_content_code(d, TRUE) = 200
              /\ \A e \in RecordIds \ {d} : store'[e] = store[e]
              /\ \E data \in UpdateInputs :
                    \A f \in DOMAIN store[d] :
                        store'[d][f] = IF f \in DOMAIN data THEN data[f]
                                       ELSE IF f = "updated_at" THEN Now
                                       ELSE store[d][f]]_vars

\* C23 (id that does not exist): with the store reachable, update_content
\* returns False without raising for every id that names no document, and PUT
\* answers 404.
C23_AbsentReturnsFalse ==
    \A id \in ContentIdInputs :
        get_content(id) = NoRecord =>
            /\ update_content_returns(id, TRUE) = "False"
            /\ PUT_content_code(id, TRUE) = 404

\* C23 (as stated): both parts.
C23_MergeUpdate == C23_MergeEffect /\ []C23_AbsentReturnsFalse

C23_Witness ==
    \E d \in RecordIds :
        /\ store[d].updated_at = Now /\ store[d].posts = <<"E1">>
        /\ store[d].type = "idea"
        /\ update_content_returns(InvalidId, TRUE) = "raised"
        /\ PUT_content_code(InvalidId, TRUE) = 500

\* The step removed document d from the collection
Deleted(d) == store[d] # NoRecord /\ store'[d] = NoRecord

\* C24 (existing document): a step that deletes a document is one DELETE
\* answers 200 for, removes that document and no other, and leaves an id that
\* GET answers 404 for from then on (the id of a removed document is not
\* given out again).
C24_DeleteEffect ==
    [][\A d \in RecordIds :
          /\ Deleted(d) =>
                /\ DELETE_content_code(d, TRUE) = 200
                /\ \A e \in RecordIds \ {d} : store'[e] = store[e]
                /\ inserted' = inserted
                /\ GET_content_code(d, TRUE)' = 404
          /\ d <= inserted /\ store[d] = NoRecord =>
                /\ store'[d] = NoRecord
                /\ GET_content_code(d, TRUE)' = 404]_vars

\* C24 (id not in the store): with the store reachable, DELETE and GET answer
\* 404 for every id that names no document.
C24_AbsentNotFound ==
    \A id \in ContentIdInputs :
        get_content(id) = NoRecord =>
            /\ DELETE_content_code(id, TRUE) = 404
            /\ GET_content_code(id, TRUE) = 404

\* C24 (as stated): both parts.
C24_Delete == C24_DeleteEffect /\ []C24_AbsentNotFound

C24_Witness ==
    \E d, e \in RecordIds :
        /\ d <= inserted /\ store[d] = NoRecord /\ store[e] # NoRecord
        /\ GET_content_code(d, TRUE) = 404 /\ DELETE_content_code(d, TRUE) = 404
        /\ GET_content_code(InvalidId, TRUE) = 500
        /\ DELETE_content_code(InvalidId, TRUE) = 500

\* C25: the steps that serve initiate_generation, initiate_post_regeneration
\* and get_task_status leave the Content Store as it was, whatever they
\* answer, and every document of the store is an idea or a post document with
\* the fields of idea_data / post_data and updated_at: none holds a task
\* identifier or a task state.
C25_HandlersWriteNothing ==
    [][/\ (ServedGenerate \/ ServedRegenerate \/ \E t \in TaskIds : task_status(t)) =>
             UNCHANGED <<store, inserted>>
       /\ \A d \in RecordIds :
             store'[d] # NoRecord =>
                 /\ store'[d].type \in {"idea", "post"}
                 /\ DOMAIN store'[d] = DOMAIN idea_data(NoTask) \cup {"updated_at"}
                 /\ DOMAIN store'[d] \cap {"task_id", "status", "state"} = {}]_vars

C25_Witness ==
    /\ resp.op = "regenerate-post" /\ resp.code = 200 /\ resp.task_id \in TaskIds
    /\ tasks[resp.task_id].pc = "queued"
    /\ \E t \in TaskIds : tasks[t].name \in IdeaTasks /\ tasks[t].pc = "done"
    /\ \E d \in RecordIds : store[d] # NoRecord

\* The number of documents of the store more recent than document d
Newer(d) == Cardinality({e \in find_all : timestamp(e) > timestamp(d)})

\* C26: GET /contents with skip s and limit l returns the documents at
\* positions s..s+l-1 of the store's documents ordered most recent first: the
\* i-th document returned has exactly s+i-1 more recent documents, there are
\* min(l, n-s) of them (none when s >= n), and the page that follows
\* continues where this one ends.
C26_Pagination ==
    \A s \in SkipInputs, l \in LimitInputs :
        LET page == get_all_contents(s, l)
            n == Cardinality(find_all)
        IN  /\ Len(page) = (IF s >= n THEN 0 ELSE IF n - s < l THEN n - s ELSE l)
            /\ Len(page) <= l
            /\ \A i \in 1..Len(page) :
                  /\ page[i] \in find_all
                  /\ Newer(page[i]) = s + i - 1
            /\ page \o get_all_contents(s + l, l) = get_all_contents(s, 2 * l)

C26_Witness ==
    /\ Cardinality(find_all) = 2
    /\ Len(get_all_contents(0, 1)) = 1
    /\ Len(get_all_contents(1, 2)) = 1
    /\ get_all_contents(0, 1) # get_all_contents(1, 1)
    /\ get_all_contents(2, 1) = <<>>

\* The elements of the list posts
Elements(posts) == {posts[i] : i \in 1..Len(posts)}

\* Post task t (chained or regeneration) finishes in this step with a payload
\* that get_task_status reports as succeeded
FinishesSucceeded(t) ==
    /\ tasks[t].name \in PostTasks \cup RegenerateTasks
    /\ tasks[t].pc \in Running /\ tasks'[t].pc = "done"
    /\ Succeeded(t)' /\ status(t)' = "SUCCESS"

StopsBeforeStore(t) ==
    tasks[t].pc \in {"render", "call"} /\ tasks'[t].pc = "done"

\* C28: an idea task whose prompt rendering or producer call fails ends
\* failed in that step, which creates no record and enqueues no task; being
\* over, the task enqueues no post task afterwards either.
C28_IdeaFailureLeavesNothing ==
    [][\A t \in TaskIds :
          tasks[t].name \in IdeaTasks =>
              /\ StopsBeforeStore(t) =>
                    /\ Terminal(t)' /\ status(t)' = "failed"
                    /\ get_task_status(t)'.error
                          \in {"TemplateError", "ProviderError", "WorkerLostError"}
                    /\ UNCHANGED <<store, inserted, issued>>
                    /\ Enqueued(t)' = {}
              /\ (tasks[t].pc = "done" /\ Enqueued(t) = {}) => Enqueued(t)' = {}
              /\ (tasks[t].pc = "call" /\ tasks'[t].pc # "call") =>
                    \/ StopsBeforeStore(t)
                    \/ tasks'[t].pc = "store" /\ tasks'[t].text \in Texts]_vars

C28_Witness ==
    \E t \in TaskIds :
        /\ tasks[t].name \in IdeaTasks /\ ErrorTagged(t)
        /\ tasks[t].result.error = "ProviderError"
        /\ status(t) = "failed"
        /\ Enqueued(t) = {} /\ inserted = 0 /\ issued = t

\* C29: a post task (chained or regeneration) writes nothing up to and
\* including its producer call; when the rendering or the call fails it ends
\* failed in that step, no record is created and every record, the target
\* record with all its fields and its posts included, is as it was.
C29_PostFailureLeavesNothing ==
    [][\A t \in TaskIds :
          tasks[t].name \in PostTasks \cup RegenerateTasks =>
              /\ (tasks[t].pc \in {"queued", "render", "call"} /\ tasks'[t] # tasks[t]) =>
                    /\ UNCHANGED <<store, inserted, issued>>
                    /\ \A d \in RecordIds : d = tasks[t].db_file => store'[d] = store[d]
              /\ StopsBeforeStore(t) =>
                    /\ Terminal(t)' /\ status(t)' = "failed"
                    /\ get_task_status(t)'.error
                          \in {"TemplateError", "ProviderError", "WorkerLostError"}
                    /\ get_task_status(t)'.result = NoResult]_vars

C29_Witness ==
    \E t, u \in TaskIds :
        /\ tasks[u].name \in PostTasks /\ tasks[u].parent = t
        /\ ErrorTagged(u) /\ tasks[u].result.error = "ProviderError"
        /\ Succeeded(t) /\ inserted = 1
        /\ get_content(tasks[t].result.db_file).type = "idea"
        /\ get_content(tasks[t].result.db_file).posts = <<>>
        /\ get_content(tasks[t].result.db_file).updated_at = Absent

\* C30: the keywords and the provider of an accepted POST /generate reach the
\* idea task unchanged and stay with it; the step in which the idea task's
\* save succeeds leaves, under the id the task goes on to return, a record
\* with type idea, the task's provider, the task's keywords, the producer's
\* text as idea and posts empty; the task returns that id and that text, and
\* the record fetched by the returned id shows them for as long as no client
\* edits or deletes it.
C30_IdeaRecordRoundTrip ==
    [][/\ (ServedGenerate /\ resp'.code = 200) =>
             /\ tasks'[resp'.task_id].reference_keywords = resp'.reference_keywords
             /\ task_provider(tasks'[resp'.task_id].name) = resp'.provider
             /\ tasks'[resp'.task_id].name \in IdeaTasks
       /\ \A t \in TaskIds :
             tasks[t].name \in IdeaTasks =>
                 /\ (tasks[t].pc \in Running \cup {"queued"} /\ tasks'[t].pc # "done") =>
                       /\ tasks'[t].reference_keywords = tasks[t].reference_keywords
                       /\ tasks'[t].name = tasks[t].name
                 /\ (tasks[t].pc = "store" /\ tasks'[t].pc = "chain") =>
                       /\ tasks'[t].db_file \in RecordIds
                       /\ store[tasks'[t].db_file] = NoRecord
                       /\ store'[tasks'[t].db_file] =
                             [type |-> "idea", provider |-> task_provider(tasks[t].name),
                              reference_keywords |-> tasks[t].reference_keywords,
                              reference_posts |-> or_empty(tasks[t].reference_posts),
                              idea |-> tasks[t].text, posts |-> <<>>,
                              updated_at |-> Absent]
                 /\ (tasks[t].pc \in {"chain", "return"} /\ tasks'[t].pc # "done") =>
                       /\ tasks'[t].db_file = tasks[t].db_file
                       /\ tasks'[t].text = tasks[t].text
                 /\ (tasks[t].pc = "return" /\ Succeeded(t)') =>
                       /\ tasks'[t].result.db_file = tasks[t].db_file
                       /\ tasks'[t].result.idea = tasks[t].text
                 /\ Succeeded(t)' =>
                       \/ store'[tasks'[t].result.db_file] = NoRecord
                       \/ store'[tasks'[t].result.db_file].updated_at = Now
                       \/ /\ store'[tasks'[t].result.db_file].type = "idea"
                          /\ store'[tasks'[t].result.db_file].provider
                                = task_provider(tasks'[t].name)
                          /\ store'[tasks'[t].result.db_file].idea = tasks'[t].result.idea
                          /\ store'[tasks'[t].result.db_file].posts = <<>>]_vars

C30_Witness ==
    \E t \in TaskIds :
        /\ tasks[t].name = "tasks.generate_idea_gpt" /\ Succeeded(t)
        /\ tasks[t].result.idea = "T1"
        /\ get_content(tasks[t].result.db_file).type = "idea"
        /\ get_content(tasks[t].result.db_file).provider = "gpt"
        /\ get_content(tasks[t].result.db_file).reference_keywords
              = process_keywords(<<"url">>, <<"page">>)
        /\ process_keywords(<<"url">>, <<"page">>) # <<"url">>
        /\ get_content(tasks[t].result.db_file).idea = "T1"
        /\ get_content(tasks[t].result.db_file).posts = <<>>
        /\ get_content(tasks[t].result.db_file).updated_at = Absent

\* The store step of a chained post task, taken by task u with its own inputs
\* and the store as it is: the document is inserted and its id kept for the
\* result, or the insert raised into the task's except clause
ChainedStoreStep(u) ==
    \/ /\ store' = save_content(post_data(tasks[u]))
       /\ inserted' = inserted + 1
       /\ tasks'[u].pc = "return" /\ tasks'[u].db_file = inserted + 1
       /\ tasks'[u].text = tasks[u].text
    \/ /\ UNCHANGED <<store, inserted>>
       /\ ErrorTagged(u)' /\ tasks'[u].result.error = "StoreError"

\* C31: a regeneration post task does in its store step what an auto-chained
\* post task does there with the same idea, keywords, reference posts, target
\* record id, generated text and store: the same store afterwards and the
\* same result to report.
C31_SamePostTaskBody ==
    [][\A u \in TaskIds :
          (/\ tasks[u].name \in RegenerateTasks
           /\ tasks[u].pc = "store" /\ tasks'[u].pc # "store"
           /\ tasks'[u].state # "FAILURE")
          => ChainedStoreStep(u)]_vars

C31_Witness ==
    \E t, u, v \in TaskIds :
        /\ tasks[u].name \in PostTasks /\ tasks[u].parent = t /\ Succeeded(u)
        /\ get_content(tasks[u].result.db_file).posts = <<tasks[u].result.post>>
        /\ tasks[v].name \in RegenerateTasks /\ ErrorTagged(v)
        /\ tasks[v].result.error = "AttributeError"
        /\ task_provider(tasks[u].name) = task_provider(tasks[v].name)

\* Post task u was given a record id and takes its store step while the store
\* holds no record under that id
StoresIntoMissingRecord(u) ==
    /\ tasks[u].name \in PostTasks \cup RegenerateTasks
    /\ tasks[u].pc = "store" /\ tasks'[u].pc # "store"
    /\ tasks[u].db_file # NoId /\ get_content(tasks[u].db_file) = NoRecord

\* C32: a post task that was given a record id and finds no record under it
\* at write time creates, when it goes on to succeed, exactly one record,
\* of type post, holding the idea it was given and the generated text as its
\* only post; it keeps the new record's id and returns it with the text.  An
\* auto-chained post task in that situation fails only when the insert fails.
C32_CreatesMissingRecord ==
    [][\A u \in TaskIds :
          /\ (StoresIntoMissingRecord(u) /\ tasks'[u].pc = "return") =>
                /\ inserted' = inserted + 1
                /\ tasks'[u].db_file = inserted'
                /\ tasks'[u].db_file # tasks[u].db_file
                /\ tasks'[u].text = tasks[u].text
                /\ store'[inserted'].type = "post"
                /\ store'[inserted'].idea = tasks[u].idea
                /\ store'[inserted'].posts = <<tasks[u].text>>
                /\ \A d \in RecordIds \ {inserted'} : store'[d] = store[d]
          /\ (StoresIntoMissingRecord(u) /\ tasks[u].name \in PostTasks
              /\ tasks'[u].state # "FAILURE") =>
                \/ tasks'[u].pc = "return"
                \/ ErrorTagged(u)' /\ tasks'[u].result.error = "StoreError"
          /\ (tasks[u].name \in PostTasks /\ tasks[u].pc = "return" /\ Succeeded(u)') =>
                /\ tasks'[u].result.db_file = tasks[u].db_file
                /\ tasks'[u].result.post = tasks[u].text]_vars

C32_Witness ==
    \E t, u \in TaskIds :
        /\ tasks[u].name \in PostTasks /\ tasks[u].parent = t /\ tasks[u].pc = "return"
        /\ Succeeded(t) /\ get_content(tasks[t].result.db_file) = NoRecord
        /\ tasks[u].db_file # tasks[t].result.db_file
        /\ get_content(tasks[u].db_file).type = "post"
        /\ get_content(tasks[u].db_file).posts = <<tasks[u].text>>
        /\ get_content(tasks[u].db_file).idea = tasks[t].result.idea

\* C33: a post task (chained or regeneration) that was given no record id and
\* leaves its store step on the success path has created exactly one record,
\* of type post, with the idea it was given and the generated text as its
\* only post, and keeps the new record's id for its result.
C33_NoIdCreatesPostRecord ==
    [][\A u \in TaskIds :
          (/\ tasks[u].name \in PostTasks \cup RegenerateTasks
           /\ tasks[u].db_file = NoId
           /\ tasks[u].pc = "store" /\ tasks'[u].pc = "return")
          => /\ inserted' = inserted + 1
             /\ tasks'[u].db_file = inserted'
             /\ store'[inserted'].type = "post"
             /\ store'[inserted'].idea = tasks[u].idea
             /\ store'[inserted'].posts = <<tasks[u].text>>
             /\ \A d \in RecordIds \ {inserted'} : store'[d] = store[d]]_vars

C33_Witness ==
    \E u \in TaskIds :
        /\ tasks[u].name \in RegenerateTasks /\ Succeeded(u)
        /\ status(u) = "SUCCESS"
        /\ tasks[u].result.post = "T1" /\ tasks[u].result.db_file = NoId
        /\ inserted = 0

\* C34: a task whose backend state is none of PENDING, PROGRESS, SUCCESS and
\* FAILURE is reported with that state's name in lower case (started, retry,
\* revoked), with no result and no error.
C34_OtherStatesLowerCased ==
    \A t \in TaskIds :
        tasks[t].state \notin {"PENDING", "PROGRESS", "SUCCESS", "FAILURE"} =>
            /\ tasks[t].state \in OtherStates
            /\ status(t) = (CASE tasks[t].state = "STARTED" -> "started"
                              [] tasks[t].state = "RETRY" -> "retry"
                              [] tasks[t].state = "REVOKED" -> "revoked")
            /\ get_task_status(t).result = NoResult
            /\ get_task_status(t).error = Absent
            /\ get_task_status(t).task_id = t

C34_Witness ==
    \E t, u \in TaskIds :
        /\ tasks[t].state = "REVOKED" /\ status(t) = "revoked"
        /\ tasks[u].pc \in Running /\ status(u) = "in_progress"

\* The note a task at position pc has set last: the rendering note up to the
\* rendering, the calling note of its provider from then on
LastNote(name, pc) ==
    IF pc = "render"
    THEN (IF name \in IdeaTasks THEN "Rendering idea prompt" ELSE "Rendering post prompt")
    ELSE (IF name \in {"tasks.generate_idea_gpt", "tasks.generate_post_gpt",
                       "tasks.regenerate_post_gpt"}
          THEN "Calling OpenAI API" ELSE "Calling Gemini API")

\* C35: a task picked up from the queue sets the rendering note before it
\* renders, sets the calling note after the rendering and before the producer
\* is called, and sets no other note; while the task is between pickup and
\* completion get_task_status reports in_progress with the note set last and
\* no error.
C35_ProgressNotesInOrder ==
    [][\A t \in TaskIds :
          /\ (tasks[t].pc = "queued" /\ tasks'[t].pc # "queued") => tasks'[t].pc = "render"
          /\ (tasks[t].pc = "render" /\ tasks'[t].pc \in Running \ {"render"}) =>
                tasks'[t].pc = "call"
          /\ (tasks[t].pc = "call" /\ tasks'[t].pc \in Running \ {"call"}) =>
                tasks'[t].pc = "store"
          /\ (tasks[t].pc \in Running \ {"render"} /\ tasks'[t].pc \in Running) =>
                tasks'[t].info = tasks[t].info
          /\ tasks'[t].pc \in Running =>
                /\ status(t)' = "in_progress"
                /\ get_task_status(t)'.result.current
                      = LastNote(tasks'[t].name, tasks'[t].pc)
                /\ get_task_status(t)'.result
                      = [NoResult EXCEPT !.current = LastNote(tasks'[t].name, tasks'[t].pc)]
                /\ get_task_status(t)'.error = Absent]_vars

C35_Witness ==
    \E t, u \in TaskIds :
        /\ tasks[t].name \in IdeaTasks /\ tasks[t].pc = "return"
        /\ get_task_status(t).result.current = "Calling OpenAI API"
        /\ tasks[u].parent = t /\ tasks[u].pc = "render"
        /\ status(u) = "in_progress"
        /\ get_task_status(u).result.current = "Rendering post prompt"

\* The provider of an idea task, by its registered name
IdeaProvider(name) == IF name = "tasks.generate_idea_gemini" THEN "gemini" ELSE "gpt"

\* C36: an idea task of provider p writes a record whose provider is p, the
\* post task it chains is the post task of p, and the record that post task
\* creates on its fallback path has provider p too.
C36_ProviderPreserved ==
    [][\A t \in TaskIds :
          /\ (tasks[t].name \in IdeaTasks /\ tasks[t].pc = "store"
              /\ tasks'[t].pc = "chain") =>
                store'[tasks'[t].db_file].provider = IdeaProvider(tasks[t].name)
          /\ (tasks[t].name \in IdeaTasks /\ tasks[t].pc = "chain"
              /\ tasks'[t].pc = "return") =>
                /\ issued' = issued + 1
                /\ tasks'[issued'].parent = t
                /\ tasks'[issued'].name =
                      (IF IdeaProvider(tasks[t].name) = "gemini"
                       THEN "tasks.generate_post_gemini" ELSE "tasks.generate_post_gpt")
          /\ (tasks[t].name \in PostTasks /\ tasks[t].parent # NoId
              /\ tasks[t].pc = "store" /\ tasks'[t].pc = "return") =>
                /\ tasks'[t].name = tasks[t].name
                /\ store'[tasks'[t].db_file].provider
                      = IdeaProvider(tasks[tasks[t].parent].name)]_vars

C36_Witness ==
    \E t, u \in TaskIds :
        /\ tasks[t].name = "tasks.generate_idea_gpt" /\ Succeeded(t)
        /\ get_content(tasks[t].result.db_file).provider = "gpt"
        /\ tasks[u].parent = t /\ tasks[u].name = "tasks.generate_post_gpt"
        /\ Succeeded(u) /\ tasks[u].result.db_file # tasks[t].result.db_file
        /\ get_content(tasks[u].result.db_file).provider = "gpt"
        /\ get_content(tasks[u].result.db_file).type = "post"

\* The idea tasks get_task_status reports as succeeded
SucceededIdeaTasks == {t \in TaskIds : tasks[t].name \in IdeaTasks /\ Succeeded(t)}

\* Every task sent so far is over
AllTerminal == \A t \in TaskIds : tasks[t].pc \in {"unsent", "done"}

\* C37: once the idea task of every accepted generation request and its
\* chained post task are terminal, the records created in the store are one
\* for each request whose idea task succeeded (whatever its post task did) and
\* none for a request whose idea task failed.
C37_OneRecordPerRequest ==
    AllTerminal => inserted = Cardinality(SucceededIdeaTasks)

C37_Witness ==
    \E t, u \in TaskIds :
        /\ AllTerminal /\ issued = 2 /\ inserted = 2
        /\ tasks[t].name \in IdeaTasks /\ Succeeded(t)
        /\ tasks[u].parent = t /\ Succeeded(u)
        /\ get_content(tasks[t].result.db_file).type = "idea"
        /\ get_content(tasks[u].result.db_file).type = "post"
        /\ get_content(tasks[t].result.db_file).posts = <<>>

\* C38: an idea task that get_task_status reports as failed has created no
\* Content Record, at whatever step of its body it failed: when it ends
\* failed it holds no id of a record it saved.
C38_FailedIdeaCreatedNothing ==
    [][\A t \in TaskIds :
          (/\ tasks[t].name \in IdeaTasks
           /\ tasks[t].pc \in Running /\ tasks'[t].pc = "done"
           /\ status(t)' = "failed")
          => tasks[t].db_file = NoId]_vars

C38_Witness ==
    \E t \in TaskIds :
        /\ tasks[t].name \in IdeaTasks /\ ErrorTagged(t)
        /\ tasks[t].result.error = "BrokerError" /\ status(t) = "failed"
        /\ issued = 1 /\ inserted = 1 /\ Enqueued(t) = {}
        /\ store[1].type = "idea" /\ store[1].idea = "T1" /\ store[1].updated_at = Absent

\* The client's polling loop (src/client/app.py): at most max_retries polls
max_retries == 60

\* What one pass of the loop does with the status the server answered:
\* st.success and break, st.error and break, or sleep and poll again
poll_once(task_id) ==
    LET status_data == get_task_status(task_id)
    IN  IF status_data.status = "SUCCESS" THEN "success"
        ELSE IF status_data.status = "FAILURE" THEN "error"
        ELSE "again"

\* The loop from pass attempt on, the backend holding the task as it is (it
\* does for a terminal task): the outcome shown, "warning" being the for-else
\* branch taken when max_retries passes ended without a break
RECURSIVE poll(_, _)
poll(task_id, attempt) ==
    IF attempt >= max_retries THEN "warning"
    ELSE IF poll_once(task_id) # "again" THEN poll_once(task_id)
    ELSE poll(task_id, attempt + 1)

\* C39: for a task the server reports a terminal outcome of, the client's
\* loop stops on that poll and shows the outcome, success for a succeeded
\* task and failure for a failed one, and so never runs to its limit.
C39_ClientStopsOnTerminal ==
    \A t \in TaskIds :
        Terminal(t) =>
            /\ poll_once(t) = (IF Succeeded(t) THEN "success" ELSE "error")
            /\ poll(t, 0) = poll_once(t)
            /\ poll(t, 0) # "warning"

C39_Witness ==
    \E t, u \in TaskIds :
        /\ ErrorTagged(t) /\ status(t) = "failed"
        /\ poll_once(t) = "again" /\ poll(t, 0) = "warning"
        /\ Succeeded(u) /\ poll(u, 0) = "success"

\* C40: a client edit of a post (PUT of the whole posts list with one element
\* replaced) and a regeneration task against the same record lose nothing:
\* the edit drops no post, and the regeneration task, when its producer
\* returned a text, leaves the edited posts in place and appends that text.
C40_EditAndRegenerationKeepBoth ==
    [][/\ \A d \in RecordIds :
             Updated(d) => Len(store'[d].posts) >= Len(store[d].posts)
       /\ \A u \in TaskIds : \A d \in RecordIds :
             (/\ tasks[u].name \in RegenerateTasks /\ tasks[u].db_file = d
              /\ tasks[u].pc = "store" /\ tasks'[u].pc # "store"
              /\ tasks'[u].state # "FAILURE"
              /\ store[d] # NoRecord /\ store[d].updated_at = Now)
             => /\ store'[d].posts = Append(store[d].posts, tasks[u].text)
                /\ tasks'[u].pc = "return"]_vars

C40_Witness ==
    \E u \in TaskIds : \E d \in RecordIds :
        /\ tasks[u].name \in RegenerateTasks /\ ErrorTagged(u)
        /\ tasks[u].result.error = "AttributeError"
        /\ store[d].type = "post" /\ store[d].updated_at = Now
        /\ store[d].posts = <<"E1">> /\ store[d].idea = "T1"

====
